---- MODULE Spec2Model ----
(***************************************************************************)
(* A model of bfcc, the Brainfuck compiler: the tokenizer, the lowering of *)
(* tokens to IR, the IR optimiser and the IR interpreter (vm.Run).         *)
(* Indices are 0-based as in the Go source; At(s, i) reads element i.      *)
(***************************************************************************)
EXTENDS Integers, Sequences, FiniteSets, TLC

(***************************************************************************)
(* Bounds of the model.                                                    *)
(***************************************************************************)
MaxSrcLen == 4

At(s, i) == s[i + 1]

BoundedSeq(S, n) == UNION {[1..k -> S] : k \in 0..n}

(***************************************************************************)
(* token.go: token kinds and the byte -> token table.                      *)
(***************************************************************************)
TokInvalid == 0
TokShiftRight == 1
TokShiftLeft == 2
TokAdd == 3
TokSub == 4
TokOut == 5
TokIn == 6
TokLBracket == 7
TokRBracket == 8
TokEOF == 9

\* The bytes the model reads: the eight commands and newline.
ChGt == 62
ChLt == 60
ChPlus == 43
ChMinus == 45
ChDot == 46
ChComma == 44
ChLBracket == 91
ChRBracket == 93
ChNewline == 10

CommandBytes == {ChGt, ChLt, ChPlus, ChMinus, ChDot, ChComma, ChLBracket, ChRBracket}

\* The source bytes of the model: the commands, newline, a space (32) and a
\* lower-case letter 'a' (97), a comment character above ']'.
SrcBytes == CommandBytes \cup {ChNewline, 32, 97}

\* charToToken is an array literal [...]TokenKind{'>': ..., ']': ...}: its
\* length is the largest index plus one, ']' + 1.
CharToTokenLen == ChRBracket + 1

\* charToToken[b] for an index inside the array; the unset entries are 0.
charToToken(b) ==
    CASE b = ChGt -> TokShiftRight
      [] b = ChLt -> TokShiftLeft
      [] b = ChPlus -> TokAdd
      [] b = ChMinus -> TokSub
      [] b = ChDot -> TokOut
      [] b = ChComma -> TokIn
      [] b = ChLBracket -> TokLBracket
      [] b = ChRBracket -> TokRBracket
      [] OTHER -> TokInvalid

Position(off, ln, cl) == [Offset |-> off, Line |-> ln, Column |-> cl]

\* A nil *Position.
NilPos == [Offset |-> -1, Line |-> 0, Column |-> 0]

Token(k, p) == [Kind |-> k, Pos |-> p]

(***************************************************************************)
(* ir.go: op kinds and ops.                                                *)
(***************************************************************************)
OpShift == 0
OpAdd == 1
OpZero == 2
OpIn == 3
OpOut == 4
OpJz == 5
OpJnz == 6

Op(k, a, p) == [Kind |-> k, Arg |-> a, Pos |-> p]

(***************************************************************************)
(* The jump-pair invariant, by a single-stack bracket walk.                *)
(***************************************************************************)
\* The walk: [ok |-> every Jnz met an open Jz and no Jz stays open,
\*            pairs |-> the set of <<Jz index, Jnz index>>].
RECURSIVE BracketWalk(_, _, _, _)
BracketWalk(s, i, stack, pairs) ==
    IF i >= Len(s)
    THEN [ok |-> stack = <<>>, pairs |-> pairs]
    ELSE IF At(s, i).Kind = OpJz
         THEN BracketWalk(s, i + 1, Append(stack, i), pairs)
         ELSE IF At(s, i).Kind = OpJnz
              THEN IF stack = <<>>
                   THEN [ok |-> FALSE, pairs |-> pairs]
                   ELSE BracketWalk(s, i + 1, SubSeq(stack, 1, Len(stack) - 1),
                                    pairs \cup {<<stack[Len(stack)], i>>})
              ELSE BracketWalk(s, i + 1, stack, pairs)

Pairs(s) == BracketWalk(s, 0, <<>>, {}).pairs

JumpPairInv(s) ==
    /\ BracketWalk(s, 0, <<>>, {}).ok
    /\ \A p \in Pairs(s) :
          /\ p[2] > p[1]
          /\ At(s, p[1]).Arg = p[2] + 1
          /\ At(s, p[2]).Arg = p[1]

VARIABLES
    phase,      \* the stage the pipeline is in
    src,        \* Tokenize: the source bytes
    ti,         \* Tokenize: the loop index i
    line,       \* Tokenize: line
    col,        \* Tokenize: col
    tokens,     \* Tokenize: the tokens appended so far; then Lower's toks
    li,         \* Lower: the loop index i
    ops,        \* Lower: ops; then the IR stream handed to Optimise
    loopStack,  \* Lower: loopStack
    lowerErr,   \* Lower: the returned error (NoErr when nil)
    result,     \* Optimise: result
    prev,       \* Optimise: prev
    rounds,     \* Optimise: the rounds of the fixed-point loop begun so far
    memSize,    \* VM: memSize (WithMemorySize)
    input,      \* VM: the bytes the input reader holds (WithInput)
    eofBehavior, \* VM: eofBehavior (WithEOFBehavior)
    outCap,     \* VM: the bytes the output writer takes before it fails
    vmRun,      \* which stream Run executes: "orig" (ops) or "opt" (result)
    memory,     \* VM: memory
    dp,         \* VM: dp
    pc,         \* VM: pc
    inPos,      \* the number of input bytes read so far
    out,        \* the bytes written to the output writer so far
    vmEnd,      \* "running", or how Run returned: "nil" or "error"
    vmErr,      \* the RuntimeError returned (NoRuntimeErr when nil)
    firstEnd,   \* how the run of ops returned, kept for the run of result
    firstOut,   \* the bytes the run of ops wrote
    alias,      \* Optimise: result shares its backing array with the caller's ops
    calls,      \* the number of times Optimise was called again on its result
    code,       \* X86_64Generator: code
    targets,    \* X86_64Generator: targets, the set of keys mapped to true
    labelAddr,  \* X86_64Generator: labelAddr, a function on the keys present
    fixups,     \* X86_64Generator: fixups
    helperReadOffset,   \* package variable helperReadOffset
    helperWriteOffset,  \* package variable helperWriteOffset
    gi,         \* Generate: the index of the range loop over g.ops
    fi          \* resolveFixups: the index of the range loop over g.fixups

frontVars == <<src, ti, line, col, tokens, li, loopStack, lowerErr>>

optVars == <<result, prev, rounds, alias, calls>>

vmConfig == <<memSize, input, eofBehavior, outCap>>

vmVars == <<vmRun, memory, dp, pc, inPos, out, vmEnd, vmErr, firstEnd, firstOut>>

genVars == <<code, targets, labelAddr, fixups, helperReadOffset, helperWriteOffset, gi, fi>>

vars == <<phase, src, ti, line, col, tokens, li, ops, loopStack, lowerErr,
          result, prev, rounds, memSize, input, eofBehavior, outCap,
          vmRun, memory, dp, pc, inPos, out, vmEnd, vmErr, firstEnd, firstOut,
          alias, calls,
          code, targets, labelAddr, fixups, helperReadOffset, helperWriteOffset, gi, fi>>

NoErr == [Msg |-> "", Pos |-> NilPos]

NoRuntimeErr == [Msg |-> "", Pos |-> NilPos, PC |-> -1]

(***************************************************************************)
(* vm.go: the EOF behaviours, and a VM no Run has been called on.          *)
(***************************************************************************)
EOFZero == 0
EOFMinusOne == 1
EOFNoChange == 2

\* The tape length and the output capacity of the model's VMs.
MemSize == 2
MaxOut == 2

VMIdle ==
    /\ vmRun = "orig"
    /\ memory = <<>>
    /\ dp = 0
    /\ pc = 0
    /\ inPos = 0
    /\ out = <<>>
    /\ vmEnd = "running"
    /\ vmErr = NoRuntimeErr
    /\ firstEnd = "running"
    /\ firstOut = <<>>

\* No generator has been made: the package variables hold their zero value.
GenIdle ==
    /\ code = <<>>
    /\ targets = {}
    /\ labelAddr = <<>>
    /\ fixups = <<>>
    /\ helperReadOffset = 0
    /\ helperWriteOffset = 0
    /\ gi = 0
    /\ fi = 0

\* NewVM with the default EOF behaviour, an empty input, the model's tape.
VMDefault ==
    /\ memSize = MemSize
    /\ input = <<>>
    /\ eofBehavior = EOFZero
    /\ outCap = MaxOut

\* Error mutated: the position is dropped.
ErrorWithoutPos(msg, p) == [Msg |-> msg, Pos |-> NilPos]

Error(msg, p) == [Msg |-> msg, Pos |-> p]

\* The column update mutated: the newline branch without the reset to 0.
NextColNoReset(kind, b, c) == c + 1

\* `else if b == '\n' { line++; col = 0 }` followed by `col++`: the new col.
NextCol(kind, b, c) == IF kind = 0 /\ b = ChNewline THEN 0 + 1 ELSE c + 1

(***************************************************************************)
(* Tokenize (token.go).  One action per iteration of `for i, b := range    *)
(* src`, one for the EOF token appended after the loop.                    *)
(***************************************************************************)
TokenizeByte ==
    /\ phase = "tokenize"
    /\ ti < Len(src)
    /\ LET b == At(src, ti)
       IN  IF b >= CharToTokenLen
           THEN \* charToToken[b]: index out of range, the runtime panics
                /\ phase' = "panic"
                /\ UNCHANGED <<ti, line, col, tokens>>
           ELSE LET kind == charToToken(b)
                IN  /\ phase' = phase
                    /\ tokens' = IF kind # 0
                                 THEN Append(tokens, Token(kind, Position(ti, line, col)))
                                 ELSE tokens
                    /\ line' = IF kind = 0 /\ b = ChNewline THEN line + 1 ELSE line
                    /\ col' = NextCol(kind, b, col)
                    /\ ti' = ti + 1
    /\ UNCHANGED <<src, li, ops, loopStack, lowerErr, optVars, vmConfig, genVars, vmVars>>

TokenizeEOF ==
    /\ phase = "tokenize"
    /\ ti = Len(src)
    /\ tokens' = Append(tokens, Token(TokEOF, Position(Len(src), line, col)))
    /\ phase' = "lower"
    /\ UNCHANGED <<src, ti, line, col, li, ops, loopStack, lowerErr, optVars, vmConfig, genVars, vmVars>>

(***************************************************************************)
(* Lower (lower.go).                                                       *)
(***************************************************************************)
\* FoldToken mutated: a run is never counted past its first token.
FoldTokenFirstOnly(toks, i, kind) == 1

\* FoldToken: the number of consecutive tokens of `kind` starting at index i.
RECURSIVE FoldToken(_, _, _)
FoldToken(toks, i, kind) ==
    IF i < Len(toks) /\ At(toks, i).Kind = kind
    THEN 1 + FoldToken(toks, i + 1, kind)
    ELSE 0

\* tokToRule mutated: < shifts to the right, as > does.
tokToRuleLeftIsRight(kind) ==
    CASE kind \in {TokShiftRight, TokShiftLeft} -> [op |-> OpShift, sign |-> 1, fold |-> TRUE]
      [] kind = TokAdd -> [op |-> OpAdd, sign |-> 1, fold |-> TRUE]
      [] kind = TokSub -> [op |-> OpAdd, sign |-> -1, fold |-> TRUE]
      [] kind = TokOut -> [op |-> OpOut, sign |-> 0, fold |-> FALSE]
      [] kind = TokIn -> [op |-> OpIn, sign |-> 0, fold |-> FALSE]

\* tokToRule[kind] for the six token kinds it is indexed with.
tokToRule(kind) ==
    CASE kind = TokShiftRight -> [op |-> OpShift, sign |-> 1, fold |-> TRUE]
      [] kind = TokShiftLeft -> [op |-> OpShift, sign |-> -1, fold |-> TRUE]
      [] kind = TokAdd -> [op |-> OpAdd, sign |-> 1, fold |-> TRUE]
      [] kind = TokSub -> [op |-> OpAdd, sign |-> -1, fold |-> TRUE]
      [] kind = TokOut -> [op |-> OpOut, sign |-> 0, fold |-> FALSE]
      [] kind = TokIn -> [op |-> OpIn, sign |-> 0, fold |-> FALSE]

\* ops[start].Arg = target
SetArg(s, i, a) == [s EXCEPT ![i + 1].Arg = a]

\* The back-patch mutated: the target taken before the Jnz is appended.
LowerJzTargetBeforeAppend(opsAfter) == Len(opsAfter) - 1

\* The back-patch mutated: the target is one past the index after the Jnz.
LowerJzTargetPastJnz(opsAfter) == Len(opsAfter) + 1

\* The back-patch of the ']' case: the Jz's target, given ops after the append.
LowerJzTarget(opsAfter) == Len(opsAfter)

\* One iteration of `for i := 0; i < len(toks); {...}`, or the return after it.
LowerStep ==
    /\ phase = "lower"
    /\ IF li >= Len(tokens)
       THEN /\ phase' = "lowered"
            /\ UNCHANGED <<li, ops, loopStack, lowerErr>>
       ELSE LET tok == At(tokens, li)
                pos == Position(tok.Pos.Offset, tok.Pos.Line, tok.Pos.Column)
            IN  CASE tok.Kind = TokEOF ->
                       IF Len(loopStack) > 0
                       THEN /\ phase' = "lowerfail"
                            /\ ops' = <<>>
                            /\ lowerErr' = Error("unmatched '['", At(tokens, At(loopStack, 0)).Pos)
                            /\ UNCHANGED <<li, loopStack>>
                       ELSE /\ phase' = "lowered"
                            /\ UNCHANGED <<li, ops, loopStack, lowerErr>>
                  [] tok.Kind = TokLBracket ->
                       /\ loopStack' = Append(loopStack, Len(ops))
                       /\ ops' = Append(ops, Op(OpJz, 0, pos))
                       /\ li' = li + 1
                       /\ UNCHANGED <<phase, lowerErr>>
                  [] tok.Kind = TokRBracket ->
                       IF Len(loopStack) = 0
                       THEN /\ phase' = "lowerfail"
                            /\ ops' = <<>>
                            /\ lowerErr' = Error("unmatched ']'", tok.Pos)
                            /\ UNCHANGED <<li, loopStack>>
                       ELSE LET start == At(loopStack, Len(loopStack) - 1)
                                appended == Append(ops, Op(OpJnz, start, pos))
                            IN  /\ loopStack' = SubSeq(loopStack, 1, Len(loopStack) - 1)
                                /\ ops' = SetArg(appended, start, LowerJzTarget(appended))
                                /\ li' = li + 1
                                /\ UNCHANGED <<phase, lowerErr>>
                  [] tok.Kind \in {TokAdd, TokSub, TokShiftLeft, TokShiftRight, TokIn, TokOut} ->
                       LET rule == tokToRule(tok.Kind)
                           count == FoldToken(tokens, li, tok.Kind)
                       IN  IF rule.fold
                           THEN /\ ops' = Append(ops, Op(rule.op, rule.sign * count, pos))
                                /\ li' = li + count
                                /\ UNCHANGED <<phase, loopStack, lowerErr>>
                           ELSE /\ ops' = Append(ops, Op(rule.op, 0, pos))
                                /\ li' = li + 1
                                /\ UNCHANGED <<phase, loopStack, lowerErr>>
                  [] OTHER ->
                       /\ phase' = "lowerfail"
                       /\ ops' = <<>>
                       /\ lowerErr' = Error("unexpected token", tok.Pos)
                       /\ UNCHANGED <<li, loopStack>>
    /\ UNCHANGED <<src, ti, line, col, tokens, optVars, vmConfig, genVars, vmVars>>

(***************************************************************************)
(* The front end: Tokenize, then Lower, on every bounded source.           *)
(***************************************************************************)
InitFront ==
    /\ phase = "tokenize"
    /\ src \in BoundedSeq(SrcBytes, MaxSrcLen)
    /\ ti = 0
    /\ line = 1
    /\ col = 1
    /\ tokens = <<>>
    /\ li = 0
    /\ ops = <<>>
    /\ loopStack = <<>>
    /\ lowerErr = NoErr
    /\ result = <<>>
    /\ prev = 0
    /\ rounds = 0
    /\ alias = FALSE
    /\ calls = 0
    /\ VMDefault
    /\ VMIdle
    /\ GenIdle

NextFront == TokenizeByte \/ TokenizeEOF \/ LowerStep

SpecFront == InitFront /\ [][NextFront]_vars

(***************************************************************************)
(* The optimiser (optimise.go).                                            *)
(***************************************************************************)
\* fixJumpTargets: the in-place bracket walk; a Jnz met with an empty stack
\* and a Jz left on the stack keep the argument they had.
RECURSIVE FixWalk(_, _, _)
FixWalk(s, i, stack) ==
    IF i >= Len(s)
    THEN s
    ELSE IF At(s, i).Kind = OpJz
         THEN FixWalk(s, i + 1, Append(stack, i))
         ELSE IF At(s, i).Kind = OpJnz /\ Len(stack) > 0
              THEN LET start == At(stack, Len(stack) - 1)
                   IN  FixWalk(SetArg(SetArg(s, start, i + 1), i, start), i + 1,
                               SubSeq(stack, 1, Len(stack) - 1))
              ELSE FixWalk(s, i + 1, stack)

\* fixJumpTargets mutated: the walk left out, the old targets kept.
fixJumpTargetsSkipped(s) == s

\* fixJumpTargets mutated: a Jz is given the index of its Jnz, not the index
\* after it.
fixJumpTargetsJzAtJnz(s) ==
    LET fixed == FixWalk(s, 0, <<>>)
    IN  [k \in 1..Len(s) |->
            IF fixed[k].Kind = OpJz /\ fixed[k].Arg > 0
            THEN [fixed[k] EXCEPT !.Arg = @ - 1]
            ELSE fixed[k]]

fixJumpTargets(s) == FixWalk(s, 0, <<>>)

\* The loop of removeEmptyLoops over ops from index i, appending to res.
RECURSIVE EmptyLoopsFrom(_, _, _)
EmptyLoopsFrom(s, i, res) ==
    IF i >= Len(s)
    THEN res
    ELSE IF /\ i + 1 < Len(s)
            /\ At(s, i).Kind = OpJz
            /\ At(s, i + 1).Kind = OpJnz
            /\ At(s, i).Arg = i + 2
            /\ At(s, i + 1).Arg = i
         THEN EmptyLoopsFrom(s, i + 2, res)
         ELSE EmptyLoopsFrom(s, i + 1, Append(res, At(s, i)))

\* removeEmptyLoops mutated: only the first empty loop met is dropped.
RECURSIVE EmptyLoopsOnceFrom(_, _, _, _)
EmptyLoopsOnceFrom(s, i, res, done) ==
    IF i >= Len(s)
    THEN res
    ELSE IF /\ ~done
            /\ i + 1 < Len(s)
            /\ At(s, i).Kind = OpJz
            /\ At(s, i + 1).Kind = OpJnz
            /\ At(s, i).Arg = i + 2
            /\ At(s, i + 1).Arg = i
         THEN EmptyLoopsOnceFrom(s, i + 2, res, TRUE)
         ELSE EmptyLoopsOnceFrom(s, i + 1, Append(res, At(s, i)), done)

removeEmptyLoopsFirstOnly(s) ==
    IF Len(s) < 2 THEN s ELSE fixJumpTargets(EmptyLoopsOnceFrom(s, 0, <<>>, FALSE))

\* removeEmptyLoops mutated: every op is kept.
removeEmptyLoopsKeepsAll(s) == s

removeEmptyLoops(s) ==
    IF Len(s) < 2 THEN s ELSE fixJumpTargets(EmptyLoopsFrom(s, 0, <<>>))

\* The loop of clearLoops over ops from index i, appending to res.
RECURSIVE ClearLoopsFrom(_, _, _)
ClearLoopsFrom(s, i, res) ==
    IF i >= Len(s)
    THEN res
    ELSE IF /\ i + 2 < Len(s)
            /\ At(s, i).Kind = OpJz
            /\ At(s, i + 1).Kind = OpAdd
            /\ (At(s, i + 1).Arg = 1 \/ At(s, i + 1).Arg = -1)
            /\ At(s, i + 2).Kind = OpJnz
            /\ At(s, i).Arg = i + 3
            /\ At(s, i + 2).Arg = i
         THEN ClearLoopsFrom(s, i + 3, Append(res, Op(OpZero, 0, At(s, i).Pos)))
         ELSE ClearLoopsFrom(s, i + 1, Append(res, At(s, i)))

\* clearLoops mutated: only the first clear loop met becomes a ZERO.
RECURSIVE ClearLoopsOnceFrom(_, _, _, _)
ClearLoopsOnceFrom(s, i, res, done) ==
    IF i >= Len(s)
    THEN res
    ELSE IF /\ ~done
            /\ i + 2 < Len(s)
            /\ At(s, i).Kind = OpJz
            /\ At(s, i + 1).Kind = OpAdd
            /\ (At(s, i + 1).Arg = 1 \/ At(s, i + 1).Arg = -1)
            /\ At(s, i + 2).Kind = OpJnz
            /\ At(s, i).Arg = i + 3
            /\ At(s, i + 2).Arg = i
         THEN ClearLoopsOnceFrom(s, i + 3, Append(res, Op(OpZero, 0, At(s, i).Pos)), TRUE)
         ELSE ClearLoopsOnceFrom(s, i + 1, Append(res, At(s, i)), done)

clearLoopsFirstOnly(s) ==
    IF Len(s) < 3 THEN s ELSE fixJumpTargets(ClearLoopsOnceFrom(s, 0, <<>>, FALSE))

clearLoops(s) ==
    IF Len(s) < 3 THEN s ELSE fixJumpTargets(ClearLoopsFrom(s, 0, <<>>))

\* The loop of mergeAdjacent: op k (1-based) folded into res.
RECURSIVE MergeFrom(_, _, _)
MergeFrom(s, k, res) ==
    IF k > Len(s)
    THEN res
    ELSE LET op == s[k]
         IN  IF Len(res) = 0
             THEN MergeFrom(s, k + 1, Append(res, op))
             ELSE LET last == res[Len(res)]
                  IN  IF \/ op.Kind = OpAdd /\ last.Kind = OpAdd
                         \/ op.Kind = OpShift /\ last.Kind = OpShift
                      THEN MergeFrom(s, k + 1,
                                     [res EXCEPT ![Len(res)].Arg = last.Arg + op.Arg])
                      ELSE MergeFrom(s, k + 1, Append(res, op))

\* The loop mutated: only consecutive ADDs are merged.
RECURSIVE MergeAddsFrom(_, _, _)
MergeAddsFrom(s, k, res) ==
    IF k > Len(s)
    THEN res
    ELSE LET op == s[k]
         IN  IF Len(res) > 0 /\ op.Kind = OpAdd /\ res[Len(res)].Kind = OpAdd
             THEN MergeAddsFrom(s, k + 1,
                                [res EXCEPT ![Len(res)].Arg = res[Len(res)].Arg + op.Arg])
             ELSE MergeAddsFrom(s, k + 1, Append(res, op))

\* The loop mutated: the kind of the last op of result is not looked at, so
\* an ADD or a SHIFT is folded into whichever of the two came before it.
RECURSIVE MergeKindBlindFrom(_, _, _)
MergeKindBlindFrom(s, k, res) ==
    IF k > Len(s)
    THEN res
    ELSE LET op == s[k]
         IN  IF /\ Len(res) > 0
                /\ op.Kind \in {OpAdd, OpShift}
                /\ res[Len(res)].Kind \in {OpAdd, OpShift}
             THEN MergeKindBlindFrom(s, k + 1,
                                     [res EXCEPT ![Len(res)].Arg = res[Len(res)].Arg + op.Arg])
             ELSE MergeKindBlindFrom(s, k + 1, Append(res, op))

mergeAdjacentKindBlind(s) ==
    IF Len(s) < 2 THEN s ELSE fixJumpTargets(MergeKindBlindFrom(s, 1, <<>>))

mergeAdjacentAddsOnly(s) ==
    IF Len(s) < 2 THEN s ELSE fixJumpTargets(MergeAddsFrom(s, 1, <<>>))

\* mergeAdjacent mutated: the targets are not fixed after the merge.
mergeAdjacentStaleTargets(s) ==
    IF Len(s) < 2 THEN s ELSE MergeFrom(s, 1, <<>>)

mergeAdjacent(s) ==
    IF Len(s) < 2 THEN s ELSE fixJumpTargets(MergeFrom(s, 1, <<>>))

\* Go's a % n for n > 0: the remainder of the truncated division, which has
\* the sign of a.
GoRem(a, n) == IF a >= 0 THEN a % n ELSE -((-a) % n)

\* The normalisation mutated: the argument kept as it is.
NormaliseAddKept(op) == op

\* `if op.Kind == OpAdd { op.Arg = op.Arg % 256 }`
NormaliseAdd(op) ==
    IF op.Kind = OpAdd THEN [op EXCEPT !.Arg = GoRem(op.Arg, 256)] ELSE op

\* The loop of removeNoOps: op k (1-based), normalised, kept unless a no-op.
RECURSIVE NoOpsFrom(_, _, _)
NoOpsFrom(s, k, res) ==
    IF k > Len(s)
    THEN res
    ELSE LET op == NormaliseAdd(s[k])
         IN  IF (op.Kind = OpAdd \/ op.Kind = OpShift) /\ op.Arg = 0
             THEN NoOpsFrom(s, k + 1, res)
             ELSE NoOpsFrom(s, k + 1, Append(res, op))

\* The loop mutated: the kind test left out, every op with argument 0 is
\* skipped.
RECURSIVE NoOpsAnyKindFrom(_, _, _)
NoOpsAnyKindFrom(s, k, res) ==
    IF k > Len(s)
    THEN res
    ELSE LET op == NormaliseAdd(s[k])
         IN  IF op.Arg = 0
             THEN NoOpsAnyKindFrom(s, k + 1, res)
             ELSE NoOpsAnyKindFrom(s, k + 1, Append(res, op))

removeNoOpsAnyKind(s) == fixJumpTargets(NoOpsAnyKindFrom(s, 1, <<>>))

removeNoOps(s) == fixJumpTargets(NoOpsFrom(s, 1, <<>>))

\* The loop test mutated: one round only.
FixedPointAfterOneRound(len, before) == TRUE

\* The loop test mutated: the loop ends only on an empty stream.
FixedPointOnEmpty(len, before) == len = 0

\* `if len(result) == prev { break }`
FixedPoint(len, before) == len = before

\* Whether a pass builds its result in a new array (`make`), or returns the
\* slice it was given (`if len(ops) < n { return ops }`).
clearLoopsAllocates(s) == Len(s) >= 3

removeEmptyLoopsAllocates(s) == Len(s) >= 2

mergeAdjacentAllocates(s) == Len(s) >= 2

\* removeNoOps mutated: the result is built in the array of its argument, as
\* `result := ops[:0]` would.
removeNoOpsInPlace(s) == FALSE

removeNoOpsAllocates(s) == TRUE

\* An array of which the slice v, written in place from index 0, is a part.
WriteThrough(arr, v) ==
    [k \in 1..Len(arr) |-> IF k <= Len(v) THEN v[k] ELSE arr[k]]

\* The caller's array after a pass returned v: the pass wrote into it only
\* if result shared it and the pass did not allocate.
CallerArray(allocates, v) ==
    IF alias /\ ~allocates THEN WriteThrough(ops, v) ELSE ops

\* Optimise is entered: `if len(ops) == 0 { return ops }`, else result := ops;
\* either way result is the caller's slice.
OptimiseEnter ==
    /\ phase = "lowered"
    /\ result' = ops
    /\ alias' = TRUE
    /\ phase' = IF Len(ops) = 0 THEN "optimised" ELSE "clearLoops"
    /\ UNCHANGED <<ops, prev, rounds, calls, frontVars, vmConfig, genVars, vmVars>>

\* A round begins: prev := len(result); result = clearLoops(result).
ClearLoops ==
    /\ phase = "clearLoops"
    /\ prev' = Len(result)
    /\ rounds' = rounds + 1
    /\ result' = clearLoops(result)
    /\ alias' = (alias /\ ~clearLoopsAllocates(result))
    /\ ops' = CallerArray(clearLoopsAllocates(result), result')
    /\ phase' = "removeEmptyLoops"
    /\ UNCHANGED <<calls, frontVars, vmConfig, genVars, vmVars>>

RemoveEmptyLoops ==
    /\ phase = "removeEmptyLoops"
    /\ result' = removeEmptyLoops(result)
    /\ alias' = (alias /\ ~removeEmptyLoopsAllocates(result))
    /\ ops' = CallerArray(removeEmptyLoopsAllocates(result), result')
    /\ phase' = "mergeAdjacent"
    /\ UNCHANGED <<prev, rounds, calls, frontVars, vmConfig, genVars, vmVars>>

MergeAdjacent ==
    /\ phase = "mergeAdjacent"
    /\ result' = mergeAdjacent(result)
    /\ alias' = (alias /\ ~mergeAdjacentAllocates(result))
    /\ ops' = CallerArray(mergeAdjacentAllocates(result), result')
    /\ phase' = "removeNoOps"
    /\ UNCHANGED <<prev, rounds, calls, frontVars, vmConfig, genVars, vmVars>>

\* The last pass of a round and the test that ends the loop or begins the
\* next round.
RemoveNoOps ==
    /\ phase = "removeNoOps"
    /\ result' = removeNoOps(result)
    /\ alias' = (alias /\ ~removeNoOpsAllocates(result))
    /\ ops' = CallerArray(removeNoOpsAllocates(result), result')
    /\ phase' = IF FixedPoint(Len(result'), prev) THEN "optimised" ELSE "clearLoops"
    /\ UNCHANGED <<prev, rounds, calls, frontVars, vmConfig, genVars, vmVars>>

NextOpt == OptimiseEnter \/ ClearLoops \/ RemoveEmptyLoops \/ MergeAdjacent \/ RemoveNoOps

(***************************************************************************)
(* The optimiser on every bounded IR stream.                               *)
(***************************************************************************)
MaxLen == 4

\* The arguments of the ADD and SHIFT ops of the streams: ADDs beyond a byte
\* in both directions, a multiple of 256, and unit steps.
AddArgs == {-257, -1, 1, 256}

ShiftArgs == {-1, 1}

IRAlphabet ==
    {Op(OpAdd, a, NilPos) : a \in AddArgs}
        \cup {Op(OpShift, a, NilPos) : a \in ShiftArgs}
        \cup {Op(k, 0, NilPos) : k \in {OpZero, OpIn, OpOut, OpJz, OpJnz}}

\* The stream with the targets of its matched Jz/Jnz pairs set.
Targeted(s) ==
    [k \in 1..Len(s) |->
        IF \E p \in Pairs(s) : p[1] = k - 1
        THEN [s[k] EXCEPT !.Arg = (CHOOSE p \in Pairs(s) : p[1] = k - 1)[2] + 1]
        ELSE IF \E p \in Pairs(s) : p[2] = k - 1
             THEN [s[k] EXCEPT !.Arg = (CHOOSE p \in Pairs(s) : p[2] = k - 1)[1]]
             ELSE s[k]]

InitIdle ==
    /\ src = <<>>
    /\ ti = 0
    /\ line = 1
    /\ col = 1
    /\ tokens = <<>>
    /\ li = 0
    /\ loopStack = <<>>
    /\ lowerErr = NoErr
    /\ result = <<>>
    /\ prev = 0
    /\ rounds = 0
    /\ alias = FALSE
    /\ calls = 0

\* Every stream over the alphabet, with its pairs' targets set or with every
\* target left 0.
InitOpt ==
    /\ phase = "lowered"
    /\ \E s \in BoundedSeq(IRAlphabet, MaxLen) : ops \in {Targeted(s), s}
    /\ InitIdle
    /\ VMDefault
    /\ VMIdle
    /\ GenIdle

SpecOpt == InitOpt /\ [][NextOpt]_vars

(***************************************************************************)
(* The interpreter (vm.go): Run on ops, then Run on Optimise's result,     *)
(* each on a fresh VM with the same configuration.                         *)
(***************************************************************************)
\* The stream the current Run was called with.
Stream == IF vmRun = "orig" THEN ops ELSE result

RuntimeError(msg, p, c) == [Msg |-> msg, Pos |-> p, PC |-> c]

\* byte(k): the low 8 bits of an int.
ToByte(k) == k % 256

\* memory[dp] += byte(k)
AddByte(cell, k) == (cell + ToByte(k)) % 256

\* Run's first statements: a zeroed tape, dp = 0, pc = 0.
VMStart ==
    /\ phase = "optimised"
    /\ phase' = "run"
    /\ vmRun' = "orig"
    /\ memory' = [k \in 1..memSize |-> 0]
    /\ dp' = 0
    /\ pc' = 0
    /\ inPos' = 0
    /\ out' = <<>>
    /\ vmEnd' = "running"
    /\ vmErr' = NoRuntimeErr
    /\ UNCHANGED <<ops, frontVars, optVars, vmConfig, genVars, firstEnd, firstOut>>

\* What one call of v.input.Read on the one-byte buffer can return.  An item
\* of the input is a byte 0..255, read with a nil error, or one of:
\*   ReadErrNoData    (0, err), err an error other than io.EOF
\*   ReadNoData       (0, nil)
\*   ReadErrWithData  (1, err), err an error other than io.EOF
\*   ReadEOFWithData  (1, io.EOF)
\* and past the last item every read returns (0, io.EOF).
ReadErrNoData == -1
ReadNoData == -2
ReadErrWithData == -3
ReadEOFWithData == -4

ReadOutcome(r) ==
    CASE r = ReadErrNoData -> [n |-> 0, err |-> "other", b |-> 0]
      [] r = ReadNoData -> [n |-> 0, err |-> "nil", b |-> 0]
      [] r = ReadErrWithData -> [n |-> 1, err |-> "other", b |-> 0]
      [] r = ReadEOFWithData -> [n |-> 1, err |-> "EOF", b |-> 0]
      [] OTHER -> [n |-> 1, err |-> "nil", b |-> r]

\* n, err := v.input.Read(v.ioBuf[:])
Read(in, pos) ==
    IF pos >= Len(in)
    THEN [n |-> 0, err |-> "EOF", b |-> 0]
    ELSE ReadOutcome(At(in, pos))

\* The EOF switch mutated: the cell is zeroed whatever the behaviour.
EOFCellAlwaysZero(behavior, cell) == 0

\* `switch v.eofBehavior`: the cell after the EOF behaviour is applied.
EOFCell(behavior, cell) ==
    CASE behavior = EOFZero -> 0
      [] behavior = EOFMinusOne -> 255
      [] OTHER -> cell

\* The bounds test mutated: only a pointer below 0 is caught.
OutOfBoundsBelowOnly(d, size) == d < 0

\* `v.dp < 0 || v.dp >= memSize`
OutOfBounds(d, size) == d < 0 \/ d >= size

\* `return &RuntimeError{...}`
VMFail(msg, op) ==
    /\ vmEnd' = "error"
    /\ vmErr' = RuntimeError(msg, op.Pos, pc)

\* One iteration of `for v.pc < numOps`, or the `return nil` after it.  A
\* cell access with dp outside the tape is Go's index-out-of-range panic.
VMStep ==
    /\ phase = "run"
    /\ vmEnd = "running"
    /\ IF pc >= Len(Stream)
       THEN /\ vmEnd' = "nil"
            /\ UNCHANGED <<memory, dp, pc, inPos, out, vmErr>>
       ELSE LET op == At(Stream, pc)
            IN  IF op.Kind = OpShift
                THEN /\ dp' = dp + op.Arg
                     /\ IF OutOfBounds(dp', memSize)
                        THEN /\ VMFail("data pointer out of bounds", op)
                             /\ pc' = pc
                        ELSE /\ pc' = pc + 1
                             /\ UNCHANGED <<vmEnd, vmErr>>
                     /\ UNCHANGED <<memory, inPos, out>>
                ELSE IF dp < 0 \/ dp >= memSize
                THEN /\ vmEnd' = "panic"
                     /\ UNCHANGED <<memory, dp, pc, inPos, out, vmErr>>
                ELSE CASE op.Kind = OpAdd ->
                            /\ memory' = [memory EXCEPT ![dp + 1] = AddByte(@, op.Arg)]
                            /\ pc' = pc + 1
                            /\ UNCHANGED <<dp, inPos, out, vmEnd, vmErr>>
                       [] op.Kind = OpZero ->
                            /\ memory' = [memory EXCEPT ![dp + 1] = 0]
                            /\ pc' = pc + 1
                            /\ UNCHANGED <<dp, inPos, out, vmEnd, vmErr>>
                       [] op.Kind = OpIn ->
                            LET rd == Read(input, inPos)
                            IN  /\ inPos' = IF inPos >= Len(input) THEN inPos ELSE inPos + 1
                                /\ IF rd.err = "EOF" \/ rd.n = 0
                                   THEN /\ memory' = [memory EXCEPT
                                                         ![dp + 1] = EOFCell(eofBehavior, @)]
                                        /\ pc' = pc + 1
                                        /\ UNCHANGED <<vmEnd, vmErr>>
                                   ELSE IF rd.err # "nil"
                                   THEN /\ VMFail("input error", op)
                                        /\ UNCHANGED <<memory, pc>>
                                   ELSE /\ memory' = [memory EXCEPT ![dp + 1] = rd.b]
                                        /\ pc' = pc + 1
                                        /\ UNCHANGED <<vmEnd, vmErr>>
                                /\ UNCHANGED <<dp, out>>
                       [] op.Kind = OpOut ->
                            /\ IF Len(out) >= outCap
                               THEN \* the write returns an error
                                    /\ VMFail("output error", op)
                                    /\ UNCHANGED <<pc, out>>
                               ELSE /\ out' = Append(out, memory[dp + 1])
                                    /\ pc' = pc + 1
                                    /\ UNCHANGED <<vmEnd, vmErr>>
                            /\ UNCHANGED <<memory, dp, inPos>>
                       [] op.Kind = OpJz ->
                            /\ pc' = IF memory[dp + 1] = 0 THEN op.Arg ELSE pc + 1
                            /\ UNCHANGED <<memory, dp, inPos, out, vmEnd, vmErr>>
                       [] op.Kind = OpJnz ->
                            /\ pc' = IF memory[dp + 1] # 0 THEN op.Arg ELSE pc + 1
                            /\ UNCHANGED <<memory, dp, inPos, out, vmEnd, vmErr>>
    /\ UNCHANGED <<phase, ops, frontVars, optVars, vmConfig, genVars, vmRun, firstEnd, firstOut>>

\* Run on ops has returned: a fresh VM reading the same input runs result.
VMSecond ==
    /\ phase = "run"
    /\ vmRun = "orig"
    /\ vmEnd # "running"
    /\ firstEnd' = vmEnd
    /\ firstOut' = out
    /\ vmRun' = "opt"
    /\ memory' = [k \in 1..memSize |-> 0]
    /\ dp' = 0
    /\ pc' = 0
    /\ inPos' = 0
    /\ out' = <<>>
    /\ vmEnd' = "running"
    /\ vmErr' = NoRuntimeErr
    /\ UNCHANGED <<phase, ops, frontVars, optVars, vmConfig, genVars>>

NextRun == NextOpt \/ VMStart \/ VMStep \/ VMSecond

(***************************************************************************)
(* Optimise and both runs, on every bounded stream that satisfies the      *)
(* jump-pair invariant, every bounded input and every EOF behaviour.       *)
(***************************************************************************)
MaxRunLen == 4

RunAlphabet ==
    {Op(OpAdd, a, NilPos) : a \in {-1, 1}}
        \cup {Op(OpShift, a, NilPos) : a \in {-1, 1}}
        \cup {Op(k, 0, NilPos) : k \in {OpZero, OpIn, OpOut, OpJz, OpJnz}}

\* The inputs: no byte, or one byte.
Inputs == {<<>>, <<2>>}

\* The input and the EOF behaviour only matter to a stream that has an IN.
InitRun ==
    /\ phase = "lowered"
    /\ \E s \in BoundedSeq(RunAlphabet, MaxRunLen) :
          /\ BracketWalk(s, 0, <<>>, {}).ok
          /\ ops = Targeted(s)
    /\ InitIdle
    /\ memSize = MemSize
    /\ outCap = MaxOut
    /\ IF \E k \in 1..Len(ops) : ops[k].Kind = OpIn
       THEN /\ input \in Inputs
            /\ eofBehavior \in {EOFZero, EOFMinusOne, EOFNoChange}
       ELSE /\ input = <<>>
            /\ eofBehavior = EOFZero
    /\ VMIdle
    /\ GenIdle

SpecRun == InitRun /\ [][NextRun]_vars

\* The interpreter loop runs until Run returns: every step that can be taken
\* is taken.
FairSpecRun == SpecRun /\ WF_vars(NextRun)

(***************************************************************************)
(* What the claims say of a source, read off the source bytes alone.       *)
(***************************************************************************)
CommandsOnly(bytes) == \A k \in 1..Len(bytes) : bytes[k] \in CommandBytes

\* The bracket depth after each prefix never drops below 0 and ends at 0.
RECURSIVE DepthOk(_, _, _)
DepthOk(bytes, k, depth) ==
    IF k > Len(bytes)
    THEN depth = 0
    ELSE IF bytes[k] = ChLBracket
         THEN DepthOk(bytes, k + 1, depth + 1)
         ELSE IF bytes[k] = ChRBracket
              THEN depth > 0 /\ DepthOk(bytes, k + 1, depth - 1)
              ELSE DepthOk(bytes, k + 1, depth)

BalancedSrc(bytes) == DepthOk(bytes, 1, 0)

\* The 0-based offsets of the command bytes of a source, in order.
RECURSIVE CmdOffsets(_, _)
CmdOffsets(bytes, k) ==
    IF k > Len(bytes)
    THEN <<>>
    ELSE IF bytes[k] \in CommandBytes
         THEN <<k - 1>> \o CmdOffsets(bytes, k + 1)
         ELSE CmdOffsets(bytes, k + 1)

\* The token kind the language gives a command byte.
KindOfCommand(b) ==
    CASE b = ChGt -> TokShiftRight
      [] b = ChLt -> TokShiftLeft
      [] b = ChPlus -> TokAdd
      [] b = ChMinus -> TokSub
      [] b = ChDot -> TokOut
      [] b = ChComma -> TokIn
      [] b = ChLBracket -> TokLBracket
      [] b = ChRBracket -> TokRBracket

\* Line and column of the byte at 0-based offset o, counted from the source.
NewlinesBefore(bytes, o) == Cardinality({k \in 1..o : bytes[k] = ChNewline})

BytesSinceNewline(bytes, o) ==
    LET nls == {k \in 1..o : bytes[k] = ChNewline}
    IN  IF nls = {} THEN o ELSE o - (CHOOSE k \in nls : \A m \in nls : m <= k)

TokenizeReturned == phase \in {"lower", "lowered", "lowerfail"}

(***************************************************************************)
(* Claims about the front end (SpecFront).                                 *)
(***************************************************************************)

\* C1: for every source made only of command characters with balanced
\* brackets, Lower succeeds and its result satisfies the jump-pair
\* invariant; no Jz keeps the placeholder target 0.
C1_LowerJumpPairs ==
    (CommandsOnly(src) /\ BalancedSrc(src)) =>
        /\ phase # "lowerfail"
        /\ phase # "panic"
        /\ phase = "lowered" =>
              /\ lowerErr = NoErr
              /\ JumpPairInv(ops)
              /\ \A k \in 1..Len(ops) : ops[k].Kind = OpJz => ops[k].Arg # 0

\* A lowered source with a loop nested in a loop.
C1_Witness ==
    /\ phase = "lowered"
    /\ CommandsOnly(src)
    /\ BalancedSrc(src)
    /\ \E p \in Pairs(ops), q \in Pairs(ops) : p[1] < q[1] /\ q[2] < p[2]

\* C9: Tokenize never fails: whatever bytes the source holds, it returns the
\* tokens of exactly the command bytes, in order, followed by one Eof token.
C9_TokenizeTotal ==
    /\ phase # "panic"
    /\ TokenizeReturned =>
          LET offs == CmdOffsets(src, 1)
          IN  /\ Len(tokens) = Len(offs) + 1
              /\ \A k \in 1..Len(offs) : tokens[k].Kind = KindOfCommand(At(src, offs[k]))
              /\ tokens[Len(tokens)].Kind = TokEOF
              /\ \A k \in 1..Len(offs) : tokens[k].Kind # TokEOF

\* C10: every token Tokenize returns carries the offset of its byte, the line
\* 1 + (newlines before it) and the column 1 + (bytes since the last newline
\* or the start); for a source of commands only, token k has the kind of
\* character k, offset k, line 1, column k + 1.
C10_TokenPositions ==
    TokenizeReturned =>
        LET offs == CmdOffsets(src, 1) \o <<Len(src)>>
        IN  /\ Len(tokens) = Len(offs)
            /\ \A k \in 1..Len(tokens) :
                  /\ tokens[k].Pos.Offset = offs[k]
                  /\ tokens[k].Pos.Line = 1 + NewlinesBefore(src, offs[k])
                  /\ tokens[k].Pos.Column = 1 + BytesSinceNewline(src, offs[k])
            /\ CommandsOnly(src) =>
                  \A k \in 1..Len(src) :
                      /\ tokens[k].Kind = KindOfCommand(src[k])
                      /\ tokens[k].Pos = Position(k - 1, 1, k)

\* Tokenize returned a token on the second line, after a byte on that line.
C10_Witness ==
    /\ TokenizeReturned
    /\ \E k \in 1..Len(tokens) :
          /\ tokens[k].Kind # TokEOF
          /\ tokens[k].Pos.Line = 2
          /\ tokens[k].Pos.Column = 2

(***************************************************************************)
(* Claims about the optimiser (SpecOpt).                                   *)
(***************************************************************************)
\* Optimise has been entered with a non-empty stream or has returned: result
\* is the input or the output of the pass run last.
InOptimise ==
    phase \in {"clearLoops", "removeEmptyLoops", "mergeAdjacent", "removeNoOps", "optimised"}

\* C2: for every stream that satisfies the jump-pair invariant, the output
\* of every pass of Optimise, and so the stream Optimise returns, satisfies
\* it too, wherever ops were deleted.
C2_PassesKeepJumpPairs ==
    (InOptimise /\ JumpPairInv(ops)) => JumpPairInv(result)

\* Optimise returned a stream that kept a loop whose targets moved, an op
\* before the loop having been deleted.
C2_Witness ==
    /\ phase = "optimised"
    /\ JumpPairInv(ops)
    /\ Len(ops) = 4
    /\ ops[2].Kind = OpJz
    /\ ops[2].Arg = 4
    /\ Len(result) = 3
    /\ result[1].Kind = OpJz
    /\ result[1].Arg = 3
    /\ result[3].Arg = 0

\* The sum of the arguments of a stream.
RECURSIVE SumArgs(_, _)
SumArgs(s, k) == IF k > Len(s) THEN 0 ELSE s[k].Arg + SumArgs(s, k + 1)

\* C5: the output of Optimise holds no Add 0, no Shift 0 and no Add whose
\* argument is 256 or more in magnitude; the Add that replaces a stream of
\* Adds is congruent mod 256 to their sum (and there is none when the sum is
\* a multiple of 256).
C5_NoNoOps ==
    phase = "optimised" =>
        /\ \A k \in 1..Len(result) :
              /\ result[k].Kind \in {OpAdd, OpShift} => result[k].Arg # 0
              /\ result[k].Kind = OpAdd => result[k].Arg \in -255..255
        /\ (\A k \in 1..Len(ops) : ops[k].Kind = OpAdd) =>
              /\ Len(result) <= 1
              /\ (SumArgs(result, 1) - SumArgs(ops, 1)) % 256 = 0

\* Optimise returned one Add for Adds whose sum is beyond a byte.
C5_Witness ==
    /\ phase = "optimised"
    /\ Len(ops) = 3
    /\ \A k \in 1..Len(ops) : ops[k].Kind = OpAdd
    /\ SumArgs(ops, 1) < -256
    /\ Len(result) = 1
    /\ result[1].Arg = SumArgs(ops, 1) + 256

\* C6: for every stream that satisfies the jump-pair invariant, the output
\* of Optimise holds no window Jz, Add +1 or -1, Jnz whose Jz and Jnz are a
\* matched pair.
C6_NoClearLoops ==
    (phase = "optimised" /\ JumpPairInv(ops)) =>
        ~ \E i \in 0..(Len(result) - 3) :
              /\ At(result, i).Kind = OpJz
              /\ At(result, i + 1).Kind = OpAdd
              /\ At(result, i + 1).Arg \in {1, -1}
              /\ At(result, i + 2).Kind = OpJnz
              /\ At(result, i).Arg = i + 3
              /\ At(result, i + 2).Arg = i

\* C7: for every stream that satisfies the jump-pair invariant, the output
\* of Optimise holds no Jz immediately followed by its matching Jnz.
C7_NoEmptyLoops ==
    (phase = "optimised" /\ JumpPairInv(ops)) =>
        ~ \E i \in 0..(Len(result) - 2) :
              /\ At(result, i).Kind = OpJz
              /\ At(result, i + 1).Kind = OpJnz

\* Optimise returned for a loop whose whole body was an empty loop.
C7_Witness ==
    /\ phase = "optimised"
    /\ JumpPairInv(ops)
    /\ Len(ops) = 4
    /\ ops[1].Kind = OpJz
    /\ ops[2].Kind = OpJz
    /\ ops[3].Kind = OpJnz
    /\ ops[4].Kind = OpJnz
    /\ rounds >= 2

\* C8: the output of Optimise holds no two consecutive Adds and no two
\* consecutive Shifts.
C8_NoAdjacentPairs ==
    phase = "optimised" =>
        ~ \E k \in 1..(Len(result) - 1) :
              /\ result[k].Kind \in {OpAdd, OpShift}
              /\ result[k + 1].Kind = result[k].Kind

\* Optimise returned for two Adds that met only when the Shifts between them
\* had cancelled and been deleted.
C8_Witness ==
    /\ phase = "optimised"
    /\ Len(ops) = 4
    /\ ops[1].Kind = OpAdd
    /\ ops[2].Kind = OpShift
    /\ ops[3].Kind = OpShift
    /\ ops[2].Arg + ops[3].Arg = 0
    /\ ops[4].Kind = OpAdd
    /\ rounds >= 2

(***************************************************************************)
(* Claims about Optimise and vm.Run together (SpecRun, FairSpecRun).       *)
(***************************************************************************)
\* Run has returned on ops and on Optimise(ops).
BothReturned == phase = "run" /\ vmRun = "opt" /\ vmEnd # "running"

\* C3 as stated: whenever Run returns on both streams, with an error or
\* without, both runs wrote the same bytes.
C3_SameOutputWhenBothReturn ==
    (BothReturned /\ JumpPairInv(ops)) => out = firstOut

\* C3 as amended: whenever Run returns nil on both streams, both runs wrote
\* the same bytes.
C3_SameOutputWhenBothReturnNil ==
    (BothReturned /\ JumpPairInv(ops) /\ firstEnd = "nil" /\ vmEnd = "nil") =>
        out = firstOut

\* Both runs returned nil and wrote a byte, Optimise having changed the
\* stream.
C3_Witness ==
    /\ BothReturned
    /\ firstEnd = "nil"
    /\ vmEnd = "nil"
    /\ result # ops
    /\ Len(out) > 0
    /\ out[1] # 0

\* C4 as stated, for the runs that return: Run on Optimise(ops) returns nil
\* exactly when Run on ops does, and a runtime error exactly when it does.
C4_SameEnd ==
    (BothReturned /\ JumpPairInv(ops)) => vmEnd = firstEnd

\* C4 as amended: whenever Run on ops returns nil, Run on Optimise(ops)
\* returns nil as well: it neither returns a runtime error nor runs forever.
C4_NilIsKept ==
    (phase = "run" /\ vmRun = "orig" /\ vmEnd = "nil" /\ JumpPairInv(ops))
        ~> (phase = "run" /\ vmRun = "opt" /\ vmEnd = "nil")

\* Both runs returned nil for a stream whose loop ran and which Optimise
\* made shorter.
C4_Witness ==
    /\ BothReturned
    /\ firstEnd = "nil"
    /\ vmEnd = "nil"
    /\ Len(ops) = 4
    /\ ops[1].Kind = OpIn
    /\ ops[2].Kind = OpJz
    /\ ops[4].Kind = OpJnz
    /\ inPos = 1
    /\ Len(result) = 2

(***************************************************************************)
(* Claims about Lower's ops and errors (SpecFront).                        *)
(***************************************************************************)
\* The position of the byte at 0-based offset o, counted from the source.
PosOfOffset(bytes, o) ==
    Position(o, 1 + NewlinesBefore(bytes, o), 1 + BytesSinceNewline(bytes, o))

\* The number of commands from the k-th on that are the same character as
\* the k-th, whatever non-command bytes lie between them.
RECURSIVE RunLength(_, _, _)
RunLength(bytes, offs, k) ==
    IF k < Len(offs) /\ At(bytes, offs[k + 1]) = At(bytes, offs[k])
    THEN 1 + RunLength(bytes, offs, k + 1)
    ELSE 1

\* What the language says the commands from the k-th on become: one op for
\* each maximal run of one of > < + -, one op for each other command.  A
\* jump's Arg is left open (Arg 0 here; it is not compared).
RECURSIVE FoldedOps(_, _, _)
FoldedOps(bytes, offs, k) ==
    IF k > Len(offs)
    THEN <<>>
    ELSE LET b == At(bytes, offs[k])
             p == PosOfOffset(bytes, offs[k])
             n == RunLength(bytes, offs, k)
         IN  CASE b = ChGt -> <<Op(OpShift, n, p)>> \o FoldedOps(bytes, offs, k + n)
               [] b = ChLt -> <<Op(OpShift, -n, p)>> \o FoldedOps(bytes, offs, k + n)
               [] b = ChPlus -> <<Op(OpAdd, n, p)>> \o FoldedOps(bytes, offs, k + n)
               [] b = ChMinus -> <<Op(OpAdd, -n, p)>> \o FoldedOps(bytes, offs, k + n)
               [] b = ChComma -> <<Op(OpIn, 0, p)>> \o FoldedOps(bytes, offs, k + 1)
               [] b = ChDot -> <<Op(OpOut, 0, p)>> \o FoldedOps(bytes, offs, k + 1)
               [] b = ChLBracket -> <<Op(OpJz, 0, p)>> \o FoldedOps(bytes, offs, k + 1)
               [] b = ChRBracket -> <<Op(OpJnz, 0, p)>> \o FoldedOps(bytes, offs, k + 1)

\* C11: the ops Lower returns are, in token order, one Shift or Add for each
\* maximal run of n identical > < + - tokens, with argument +n for > and +
\* and -n for < and -, at the position of the run's first token, and one In
\* or Out for each , and . with no folding.
C11_FoldedRuns ==
    phase = "lowered" =>
        LET want == FoldedOps(src, CmdOffsets(src, 1), 1)
        IN  /\ Len(ops) = Len(want)
            /\ \A k \in 1..Len(ops) :
                  /\ ops[k].Kind = want[k].Kind
                  /\ ops[k].Pos = want[k].Pos
                  /\ ops[k].Kind \notin {OpJz, OpJnz} => ops[k].Arg = want[k].Arg

\* Lower returned a run of two < folded into one op at the run's first
\* token, followed by two , that stayed two ops.
C11_Witness ==
    /\ phase = "lowered"
    /\ Len(ops) = 3
    /\ ops[1] = Op(OpShift, -2, Position(0, 1, 1))
    /\ ops[2] = Op(OpIn, 0, Position(2, 1, 3))
    /\ ops[3] = Op(OpIn, 0, Position(3, 1, 4))

\* The bracket walk over the source bytes: the offsets of the [ still open
\* after the last byte, oldest first; ok is FALSE once a ] has met no open [,
\* and unmatched is then that ]'s offset.
RECURSIVE OpenBrackets(_, _, _)
OpenBrackets(bytes, k, stack) ==
    IF k > Len(bytes)
    THEN [ok |-> TRUE, stack |-> stack, unmatched |-> -1]
    ELSE IF bytes[k] = ChLBracket
         THEN OpenBrackets(bytes, k + 1, Append(stack, k - 1))
         ELSE IF bytes[k] = ChRBracket
              THEN IF Len(stack) = 0
                   THEN [ok |-> FALSE, stack |-> stack, unmatched |-> k - 1]
                   ELSE OpenBrackets(bytes, k + 1, SubSeq(stack, 1, Len(stack) - 1))
              ELSE OpenBrackets(bytes, k + 1, stack)

LowerReturned == phase \in {"lowered", "lowerfail"}

\* C12: when Lower reaches Eof with at least one [ still open, it fails with
\* "unmatched '['" and the error carries the position of the oldest [ still
\* open, whatever precedes that bracket.
C12_UnmatchedOpenPosition ==
    LET walk == OpenBrackets(src, 1, <<>>)
    IN  (LowerReturned /\ walk.ok /\ Len(walk.stack) > 0) =>
            /\ phase = "lowerfail"
            /\ lowerErr.Msg = "unmatched '['"
            /\ lowerErr.Pos = PosOfOffset(src, walk.stack[1])

\* C13: on the tokens of any source, Lower fails exactly when the brackets
\* are unbalanced; a ] met with no open [ makes it fail with "unmatched ']'"
\* at the position of that ]; a failure returns no ops, a success no error.
C13_FailsIffUnbalanced ==
    LET walk == OpenBrackets(src, 1, <<>>)
    IN  LowerReturned =>
            /\ phase = "lowerfail" <=> ~BalancedSrc(src)
            /\ phase = "lowerfail" =>
                  /\ ops = <<>>
                  /\ lowerErr.Msg \in {"unmatched '['", "unmatched ']'"}
            /\ phase = "lowered" => lowerErr = NoErr
            /\ ~walk.ok =>
                  /\ lowerErr.Msg = "unmatched ']'"
                  /\ lowerErr.Pos = PosOfOffset(src, walk.unmatched)

\* Lower failed at the fourth token, a ] with no open [, having appended
\* ops for the loop the source begins with.
C13_Witness ==
    /\ phase = "lowerfail"
    /\ lowerErr.Msg = "unmatched ']'"
    /\ lowerErr.Pos = Position(3, 1, 4)
    /\ ops = <<>>
    /\ loopStack = <<>>
    /\ li = 3
    /\ At(tokens, 0).Kind = TokLBracket

(***************************************************************************)
(* Optimise and both runs on streams whose ops carry the positions of a    *)
(* source with one command per op, with every outcome a read can have.     *)
(***************************************************************************)
MaxVMLen == 3
MaxReads == 1

\* Op k of a stream at offset k, line 1, column k + 1, as Lower sets Pos for
\* a one-line source without folded runs.
Positioned(s) == [k \in 1..Len(s) |-> [s[k] EXCEPT !.Pos = Position(k - 1, 1, k)]]

\* What the reader hands to successive reads: a byte or a failed or empty
\* read, then end of input.
ReadItems == {2, ReadErrNoData, ReadNoData, ReadErrWithData, ReadEOFWithData}

InitVM ==
    /\ phase = "lowered"
    /\ \E s \in BoundedSeq(RunAlphabet, MaxVMLen) :
          /\ BracketWalk(s, 0, <<>>, {}).ok
          /\ ops = Positioned(Targeted(s))
    /\ InitIdle
    /\ memSize = MemSize
    /\ outCap = MaxOut
    /\ IF \E k \in 1..Len(ops) : ops[k].Kind = OpIn
       THEN /\ input \in BoundedSeq(ReadItems, MaxReads)
            /\ eofBehavior \in {EOFZero, EOFMinusOne, EOFNoChange}
       ELSE /\ input = <<>>
            /\ eofBehavior = EOFZero
    /\ VMIdle
    /\ GenIdle

SpecVM == InitVM /\ [][NextRun]_vars

(***************************************************************************)
(* Claims about vm.Run (SpecVM).                                           *)
(***************************************************************************)
\* Run is about to execute the op at pc.
AtOp == phase = "run" /\ vmEnd = "running" /\ pc < Len(Stream)

\* C14: a Shift that takes dp below 0 or to memory_size or above makes Run
\* return at once a runtime error with that op's position and pc; the tape
\* and the output written so far stay as they are, and once Run has returned
\* the error no op is executed and no cell is read or written.
C14_ShiftOutOfBounds ==
    [][LET op == At(Stream, pc)
       IN  /\ (AtOp /\ op.Kind = OpShift
                  /\ (dp + op.Arg < 0 \/ dp + op.Arg >= memSize)) =>
                 (/\ vmEnd' = "error"
                  /\ vmErr'.Msg = "data pointer out of bounds"
                  /\ vmErr'.Pos = op.Pos
                  /\ vmErr'.PC = pc
                  /\ UNCHANGED <<memory, out, pc, inPos>>)
           /\ (phase = "run" /\ vmEnd = "error" /\ vmRun' = vmRun) =>
                 UNCHANGED <<memory, out, pc, dp, inPos, vmEnd, vmErr>>]_vars

\* Run returned the out-of-bounds error at the third op, a Shift past the
\* end of the tape, after an Out had written a byte.
C14_Witness ==
    /\ phase = "run"
    /\ vmRun = "orig"
    /\ vmEnd = "error"
    /\ vmErr = [Msg |-> "data pointer out of bounds", Pos |-> Position(2, 1, 3), PC |-> 2]
    /\ dp = memSize
    /\ Len(out) = 1

\* Run is about to execute an In with the data pointer on the tape.
AtIn == AtOp /\ At(Stream, pc).Kind = OpIn /\ dp >= 0 /\ dp < memSize

\* The read of the In about to run reports end of input.
EndOfInputSeen == inPos >= Len(input) \/ At(input, inPos) = ReadEOFWithData

\* The read of the In about to run returns one byte and no error.
ByteRead == inPos < Len(input) /\ At(input, inPos) \in 0..255

\* C15: an In that observes end of input sets the current cell to 0 under
\* EOFZero, to 255 under EOFMinusOne and leaves it under EOFNoChange; an In
\* that reads a byte sets the current cell to that byte; in both cases no
\* other cell changes and execution goes on at pc + 1.
C15_InSetsCell ==
    [][(AtIn /\ (EndOfInputSeen \/ ByteRead)) =>
          /\ EndOfInputSeen =>
                /\ eofBehavior = EOFZero => memory'[dp + 1] = 0
                /\ eofBehavior = EOFMinusOne => memory'[dp + 1] = 255
                /\ eofBehavior = EOFNoChange => memory'[dp + 1] = memory[dp + 1]
          /\ ByteRead => memory'[dp + 1] = At(input, inPos)
          /\ \A k \in 1..memSize : k # dp + 1 => memory'[k] = memory[k]
          /\ pc' = pc + 1
          /\ vmEnd' = "running"
          /\ UNCHANGED <<dp, out>>]_vars

\* Under EOFMinusOne a first In read the byte 2 into cell 0 and, after a
\* Shift, a second In met end of input and set cell 1 to 255.
C15_Witness ==
    /\ phase = "run"
    /\ vmRun = "orig"
    /\ eofBehavior = EOFMinusOne
    /\ input = <<2>>
    /\ inPos = 1
    /\ pc = 3
    /\ dp = 1
    /\ memory = <<2, 255>>

\* The read of the In about to run returns an error other than io.EOF.
ErrorRead ==
    inPos < Len(input) /\ At(input, inPos) \in {ReadErrNoData, ReadErrWithData}

\* C16: an In whose read returns an error other than end of input makes Run
\* return a runtime error with that op's position and pc, the cell left as
\* it was; Run goes on past an In without storing a byte only after a read
\* of zero bytes without error or an explicit end of input.
C16_ReadErrorIsFatal ==
    [][AtIn =>
          /\ ErrorRead =>
                /\ vmEnd' = "error"
                /\ vmErr'.Pos = At(Stream, pc).Pos
                /\ vmErr'.PC = pc
                /\ memory' = memory
          /\ (pc' = pc + 1 /\ ~ByteRead) =>
                (EndOfInputSeen \/ At(input, inPos) = ReadNoData)]_vars

(***************************************************************************)
(* The documented programs through the whole pipeline: Tokenize, Lower,    *)
(* Optimise, Run on Lower's ops and Run on Optimise's result.              *)
(***************************************************************************)
Repeat(b, n) == [k \in 1..n |-> b]

\* ++++++[>++++++++++<-]>+++++.
ProgPrintA ==
    Repeat(ChPlus, 6) \o <<ChLBracket, ChGt>> \o Repeat(ChPlus, 10)
        \o <<ChLt, ChMinus, ChRBracket, ChGt>> \o Repeat(ChPlus, 5) \o <<ChDot>>

\* +[->++<]
ProgDouble ==
    <<ChPlus, ChLBracket, ChMinus, ChGt, ChPlus, ChPlus, ChLt, ChRBracket>>

\* +[]+
ProgEmptyLoop == <<ChPlus, ChLBracket, ChRBracket, ChPlus>>

InitScenario ==
    /\ phase = "tokenize"
    /\ src \in {ProgPrintA, ProgDouble, ProgEmptyLoop}
    /\ ti = 0
    /\ line = 1
    /\ col = 1
    /\ tokens = <<>>
    /\ li = 0
    /\ ops = <<>>
    /\ loopStack = <<>>
    /\ lowerErr = NoErr
    /\ result = <<>>
    /\ prev = 0
    /\ rounds = 0
    /\ alias = FALSE
    /\ calls = 0
    /\ memSize = MemSize
    /\ outCap = MaxOut
    /\ input \in BoundedSeq(ReadItems, MaxReads)
    /\ eofBehavior \in {EOFZero, EOFMinusOne, EOFNoChange}
    /\ VMIdle
    /\ GenIdle

NextScenario == NextFront \/ NextRun

SpecScenario == InitScenario /\ [][NextScenario]_vars

(***************************************************************************)
(* Claims about the documented programs (SpecScenario).                    *)
(***************************************************************************)
\* Kind and argument of every op of a stream, in order.
Listing(s) == [k \in 1..Len(s) |-> <<s[k].Kind, s[k].Arg>>]

\* Optimise has returned.
Optimised == phase \in {"optimised", "run"}

\* C17: ++++++[>++++++++++<-]>+++++. writes exactly the byte 65 and returns
\* nil, whatever the input, run from Lower's ops and run from Optimise's
\* result: no run fails, no run writes another byte, and a run that has
\* returned has written 65.
C17_PrintsA ==
    (src = ProgPrintA /\ phase = "run") =>
        /\ vmEnd \in {"running", "nil"}
        /\ out \in {<<>>, <<65>>}
        /\ vmEnd = "nil" => out = <<65>>
        /\ vmRun = "opt" => (firstEnd = "nil" /\ firstOut = <<65>>)

\* Both runs of the program returned nil, a reader with a failing read
\* attached.
C17_Witness ==
    /\ src = ProgPrintA
    /\ BothReturned
    /\ vmEnd = "nil"
    /\ firstEnd = "nil"
    /\ out = <<65>>
    /\ firstOut = <<65>>
    /\ input = <<ReadErrWithData>>
    /\ Len(ops) = 10

C19_StatedListing ==
    (src = ProgDouble /\ Optimised) =>
        Listing(result) = <<<<OpAdd, 1>>, <<OpJz, 5>>, <<OpShift, 1>>, <<OpAdd, 2>>,
                            <<OpShift, -1>>, <<OpAdd, -1>>, <<OpJnz, 1>>>>

\* C19 as amended: at -O 2 the IR of +[->++<] is, in source order, ADD +1,
\* JZ 7, ADD -1, SHIFT +1, ADD +2, SHIFT -1, JNZ 1 at indices 0..6.
C19_ListingInSourceOrder ==
    (src = ProgDouble /\ Optimised) =>
        Listing(result) = <<<<OpAdd, 1>>, <<OpJz, 7>>, <<OpAdd, -1>>, <<OpShift, 1>>,
                            <<OpAdd, 2>>, <<OpShift, -1>>, <<OpJnz, 1>>>>

\* Optimise returned the seven ops of +[->++<], the ++ of the source folded
\* into one op at index 4.
C19_Witness ==
    /\ src = ProgDouble
    /\ phase = "optimised"
    /\ Len(result) = 7
    /\ result[5] = Op(OpAdd, 2, Position(4, 1, 5))

\* C20: at -O 2 the IR of +[]+ is the single op ADD +2: the empty loop is
\* removed and the two ADDs it separated are merged in the same Optimise
\* call.
C20_EmptyLoopGone ==
    (src = ProgEmptyLoop /\ Optimised) => Listing(result) = <<<<OpAdd, 2>>>>

\* Optimise returned one op for +[]+, Lower having returned four.
C20_Witness ==
    /\ src = ProgEmptyLoop
    /\ phase = "optimised"
    /\ Len(ops) = 4
    /\ Len(result) = 1
    /\ result[1].Kind = OpAdd

(***************************************************************************)
(* Claims about Optimise's loop (SpecOpt, FairSpecOpt).                    *)
(***************************************************************************)
\* Optimise is a sequential function: a pass that can run does run.
FairSpecOpt == SpecOpt /\ WF_vars(NextOpt)

\* C21 as stated, its bound: the fixed-point loop of Optimise never begins
\* more than len(ops) rounds.
C21_RoundsAtMostLen == rounds <= Len(ops)

\* C21 as amended: Optimise returns on every stream, and its loop begins at
\* most len(ops) + 1 rounds, none on the empty stream.
C21_TerminatesWithinLenPlusOne ==
    /\ [](rounds <= Len(ops) + 1 /\ (Len(ops) = 0 => rounds = 0))
    /\ <>(phase = "optimised")

\* Optimise returned after two rounds on a stream of one op, an ADD that is
\* 0 modulo 256: the first round emptied the stream, the second found it
\* unchanged.
C21_Witness ==
    /\ phase = "optimised"
    /\ Len(ops) = 1
    /\ ops[1].Kind = OpAdd
    /\ rounds = 2
    /\ result = <<>>

(***************************************************************************)
(* One pass of the optimiser called again and again on its own result, on  *)
(* every bounded stream that satisfies the jump-pair invariant.            *)
(***************************************************************************)
MaxPassLen == 6
PassCalls == 2

PassAlphabet ==
    {Op(OpAdd, a, NilPos) : a \in {-1, 1}}
        \cup {Op(OpShift, 1, NilPos), Op(OpJz, 0, NilPos), Op(OpJnz, 0, NilPos)}

InitPass ==
    /\ phase \in {"call clearLoops", "call removeEmptyLoops", "call mergeAdjacent"}
    /\ \E s \in BoundedSeq(PassAlphabet, MaxPassLen) :
          /\ BracketWalk(s, 0, <<>>, {}).ok
          /\ ops = Targeted(s)
    /\ result = ops
    /\ src = <<>>
    /\ ti = 0
    /\ line = 1
    /\ col = 1
    /\ tokens = <<>>
    /\ li = 0
    /\ loopStack = <<>>
    /\ lowerErr = NoErr
    /\ prev = 0
    /\ rounds = 0
    /\ alias = FALSE
    /\ calls = 0
    /\ VMDefault
    /\ VMIdle
    /\ GenIdle

\* result = clearLoops(result), rounds counting the calls made.
CallClearLoops ==
    /\ phase = "call clearLoops"
    /\ rounds < PassCalls
    /\ result' = clearLoops(result)
    /\ rounds' = rounds + 1
    /\ UNCHANGED <<phase, ops, prev, alias, calls, frontVars, vmConfig, genVars, vmVars>>

CallRemoveEmptyLoops ==
    /\ phase = "call removeEmptyLoops"
    /\ rounds < PassCalls
    /\ result' = removeEmptyLoops(result)
    /\ rounds' = rounds + 1
    /\ UNCHANGED <<phase, ops, prev, alias, calls, frontVars, vmConfig, genVars, vmVars>>

CallMergeAdjacent ==
    /\ phase = "call mergeAdjacent"
    /\ rounds < PassCalls
    /\ result' = mergeAdjacent(result)
    /\ rounds' = rounds + 1
    /\ UNCHANGED <<phase, ops, prev, alias, calls, frontVars, vmConfig, genVars, vmVars>>

NextPass == CallClearLoops \/ CallRemoveEmptyLoops \/ CallMergeAdjacent

SpecPass == InitPass /\ [][NextPass]_vars

(***************************************************************************)
(* Claims about single passes (SpecPass).                                  *)
(***************************************************************************)
\* Some loop of the stream has a body that is not empty and is made of
\* empty loops only, such as [[]] and [[][]].
HasLoopOfEmptyLoops(s) ==
    \E p \in Pairs(s) :
        /\ p[2] > p[1] + 1
        /\ \A k \in (p[1] + 1)..(p[2] - 1) :
              \/ At(s, k).Kind = OpJz /\ <<k, k + 1>> \in Pairs(s)
              \/ At(s, k).Kind = OpJnz /\ <<k - 1, k>> \in Pairs(s)

\* C22 as stated: on every stream that satisfies the jump-pair invariant,
\* nested empty loops included, a second call of removeEmptyLoops returns
\* what the first returned.
C22_EmptyLoopsIdempotent ==
    [][(phase = "call removeEmptyLoops" /\ rounds = 1) => result' = result]_vars

\* C22 as amended: a second call of removeEmptyLoops returns what the first
\* returned on every stream that satisfies the jump-pair invariant and has
\* no loop whose body is made only of empty loops.
C22_IdempotentUnlessNested ==
    [][(phase = "call removeEmptyLoops" /\ rounds = 1 /\ ~HasLoopOfEmptyLoops(ops)) =>
          result' = result]_vars

\* removeEmptyLoops was called twice on [+[]]: the first call dropped the
\* inner loop and moved the outer loop's targets, the second changed
\* nothing.
C22_Witness ==
    /\ phase = "call removeEmptyLoops"
    /\ rounds = 2
    /\ Len(ops) = 5
    /\ ops[3].Kind = OpJz
    /\ ops[4].Kind = OpJnz
    /\ ~HasLoopOfEmptyLoops(ops)
    /\ result = <<Op(OpJz, 3, NilPos), Op(OpAdd, 1, NilPos), Op(OpJnz, 0, NilPos)>>

\* C23: on every stream that satisfies the jump-pair invariant, a second
\* call of clearLoops returns what the first returned.
C23_ClearLoopsIdempotent ==
    [][(phase = "call clearLoops" /\ rounds = 1) => result' = result]_vars

\* clearLoops was called twice on [-][+]: the first call made both loops a
\* ZERO, the second changed nothing.
C23_Witness ==
    /\ phase = "call clearLoops"
    /\ rounds = 2
    /\ Len(ops) = 6
    /\ ops[2] = Op(OpAdd, -1, NilPos)
    /\ ops[5] = Op(OpAdd, 1, NilPos)
    /\ result = <<Op(OpZero, 0, NilPos), Op(OpZero, 0, NilPos)>>

(***************************************************************************)
(* Claims about the tape and the program counter of vm.Run.                *)
(***************************************************************************)
\* Both runs on a VM made with WithMemorySize(n), for every n from 0 up.
InitTape ==
    /\ phase = "lowered"
    /\ \E s \in BoundedSeq(RunAlphabet, MaxVMLen) :
          /\ BracketWalk(s, 0, <<>>, {}).ok
          /\ ops = Positioned(Targeted(s))
    /\ InitIdle
    /\ memSize \in 0..MemSize
    /\ outCap = MaxOut
    /\ input = <<>>
    /\ eofBehavior = EOFZero
    /\ VMIdle
    /\ GenIdle

SpecTape == InitTape /\ [][NextRun]_vars

\* C25: for every memory size of 0 or more and every stream, whenever Run
\* is about to execute an op that reads or writes the current cell, dp lies
\* in 0..memory_size-1, so Run never indexes the tape out of range.
C25_TapeInBounds ==
    /\ vmEnd # "panic"
    /\ (AtOp /\ At(Stream, pc).Kind # OpShift) => (0 <= dp /\ dp < memSize)

\* Every bounded source of command characters through Tokenize, Lower,
\* Optimise and both runs.
InitPipe ==
    /\ phase = "tokenize"
    /\ src \in BoundedSeq(CommandBytes, MaxSrcLen)
    /\ ti = 0
    /\ line = 1
    /\ col = 1
    /\ tokens = <<>>
    /\ li = 0
    /\ ops = <<>>
    /\ loopStack = <<>>
    /\ lowerErr = NoErr
    /\ result = <<>>
    /\ prev = 0
    /\ rounds = 0
    /\ alias = FALSE
    /\ calls = 0
    /\ memSize = MemSize
    /\ outCap = MaxOut
    /\ IF \E k \in 1..Len(src) : src[k] = ChComma
       THEN input \in Inputs
       ELSE input = <<>>
    /\ eofBehavior = EOFZero
    /\ VMIdle
    /\ GenIdle

SpecPipe == InitPipe /\ [][NextScenario]_vars

\* The op at pc is a jump that is taken.
Branches ==
    LET op == At(Stream, pc)
    IN  \/ op.Kind = OpJz /\ memory[dp + 1] = 0
        \/ op.Kind = OpJnz /\ memory[dp + 1] # 0

\* C26: while Run executes a stream that Lower or Lower and Optimise
\* produced, 0 <= pc <= len(ops); an op is fetched only with pc < len(ops);
\* pc grows by exactly 1 over every op that does not branch and does not
\* make Run return; Run returns nil exactly when pc = len(ops).
C26_ProgramCounter ==
    /\ [](phase = "run" =>
            /\ 0 <= pc
            /\ pc <= Len(Stream)
            /\ vmEnd = "nil" => pc = Len(Stream)
            /\ pc = Len(Stream) => vmEnd \in {"running", "nil"})
    /\ [][(phase = "run" /\ vmEnd = "running" /\ vmRun' = vmRun) =>
             IF pc = Len(Stream)
             THEN vmEnd' = "nil" /\ pc' = pc
             ELSE /\ vmEnd' # "nil"
                  /\ (vmEnd' = "running" /\ ~Branches) => pc' = pc + 1]_vars

\* Run returned nil on Lower's ops for +[-], at pc = 4, after the loop body
\* ran once and the JNZ did not branch.
C26_Witness ==
    /\ src = <<ChPlus, ChLBracket, ChMinus, ChRBracket>>
    /\ phase = "run"
    /\ vmRun = "orig"
    /\ vmEnd = "nil"
    /\ pc = 4
    /\ Len(ops) = 4
    /\ memory[1] = 0

(***************************************************************************)
(* Claims about mergeAdjacent and jump targets (SpecPass).                 *)
(***************************************************************************)
\* The op at 0-based index k of s is one mergeAdjacent folds into the op
\* before it.
FoldsIntoPrevious(s, k) ==
    /\ k > 0
    /\ k < Len(s)
    /\ At(s, k).Kind \in {OpAdd, OpShift}
    /\ At(s, k - 1).Kind = At(s, k).Kind

\* The index in the merged stream of the op that has or has absorbed the op
\* at index k of s; Len of the merged stream for k = Len(s).
MergedIndex(s, k) == Cardinality({m \in 0..(k - 1) : ~FoldsIntoPrevious(s, m)})

\* C29: on every stream that satisfies the jump-pair invariant, no op that
\* is the target of a Jz or Jnz is folded by mergeAdjacent into the op
\* before it, and in the merged stream every jump names the index the op at
\* its old target now has: that op is still the first one run after the
\* jump.
C29_TargetsNotFolded ==
    (phase = "call mergeAdjacent" /\ rounds = 1) =>
        \A k \in 0..(Len(ops) - 1) :
            At(ops, k).Kind \in {OpJz, OpJnz} =>
                LET target == At(ops, k).Arg
                    jump == At(result, MergedIndex(ops, k))
                IN  /\ ~FoldsIntoPrevious(ops, target)
                    /\ jump.Kind = At(ops, k).Kind
                    /\ jump.Arg = MergedIndex(ops, target)
                    /\ target < Len(ops) =>
                          At(result, jump.Arg).Kind = At(ops, target).Kind

\* mergeAdjacent was called on ++[>]+ : the two + before the loop became one
\* op, the targets moved down by one, and the + after the loop, the JZ's
\* target, stayed an op of its own.
C29_Witness ==
    /\ phase = "call mergeAdjacent"
    /\ rounds = 1
    /\ Len(ops) = 6
    /\ ops[3] = Op(OpJz, 5, NilPos)
    /\ result = <<Op(OpAdd, 2, NilPos), Op(OpJz, 4, NilPos), Op(OpShift, 1, NilPos),
                  Op(OpJnz, 1, NilPos), Op(OpAdd, 1, NilPos)>>

(***************************************************************************)
(* Claims about Optimise and its caller's slice.                           *)
(***************************************************************************)
\* C28: no step of Optimise, from its entry to its return, changes the kind
\* or the argument of an element of the caller's ops, whatever the length
\* of the stream, the lengths 1 and 2 at which passes return the slice they
\* were given included.
C28_InputUnchanged ==
    [][(phase = "lowered" \/ InOptimise) => Listing(ops') = Listing(ops)]_vars

\* Optimise returned on a stream of one op, ADD -257: the first three
\* passes returned the caller's slice itself, removeNoOps made the result
\* ADD -1 in a new array, and the caller's op still is ADD -257.
C28_Witness ==
    /\ phase = "optimised"
    /\ Len(ops) = 1
    /\ ops[1] = Op(OpAdd, -257, NilPos)
    /\ result = <<Op(OpAdd, -1, NilPos)>>
    /\ ~alias

\* Optimise is called again, on the stream it returned:
\* ops = core.Optimise(ops), twice.
MaxAgain == 1

OptimiseAgain ==
    /\ phase = "optimised"
    /\ calls < MaxAgain
    /\ calls' = calls + 1
    /\ ops' = result
    /\ phase' = "lowered"
    /\ rounds' = 0
    /\ UNCHANGED <<result, prev, alias, frontVars, vmConfig, genVars, vmVars>>

\* Every stream over the alphabet that satisfies the jump-pair invariant.
InitOptTwice ==
    /\ phase = "lowered"
    /\ \E s \in BoundedSeq(IRAlphabet, MaxLen) :
          /\ BracketWalk(s, 0, <<>>, {}).ok
          /\ ops = Targeted(s)
    /\ InitIdle
    /\ VMDefault
    /\ VMIdle
    /\ GenIdle

NextOptTwice == NextOpt \/ OptimiseAgain

SpecOptTwice == InitOptTwice /\ [][NextOptTwice]_vars

\* C27: for every stream that satisfies the jump-pair invariant, Optimise
\* called on the stream Optimise returned returns that stream again, in
\* kinds and arguments.
C27_OptimiseIdempotent ==
    (phase = "optimised" /\ calls = 1) => Listing(result) = Listing(ops)

(***************************************************************************)
(* The Linux x86_64 generator: amd64 encoders, X86_64Generator.Generate     *)
(* and resolveFixups.  A code offset o is position o + 1 of code.           *)
(***************************************************************************)
sysWrite == 1
sysExit == 60
BSSBase == 6291456      \* 0x600000

RECURSIVE Pow256(_)
Pow256(n) == IF n = 0 THEN 1 ELSE 256 * Pow256(n - 1)

\* binary.LittleEndian.PutUint32 of uint32(v): the low four bytes of v in
\* two's complement, lowest first.
writeLE32(v) == [k \in 1..4 |-> (v \div Pow256(k - 1)) % 256]

\* binary.LittleEndian.PutUint64 of a value that fits 32 bits: the upper
\* four bytes repeat the sign.
writeLE64(v) ==
    [k \in 1..8 |-> IF k <= 4 THEN (v \div Pow256(k - 1)) % 256
                    ELSE IF v < 0 THEN 255 ELSE 0]

MovabsR13(imm64) == <<73, 189>> \o writeLE64(imm64)          \* 49 BD
XorR12R12 == <<77, 49, 228>>                                 \* 4D 31 E4
AddqImm32R12(imm32) == <<73, 129, 196>> \o writeLE32(imm32)  \* 49 81 C4
SubqImm32R12(imm32) == <<73, 129, 236>> \o writeLE32(imm32)  \* 49 81 EC
AddbImm8Mem(imm8) == <<67, 128, 68, 37, 0, imm8>>            \* 43 80 44 25 00
SubbImm8Mem(imm8) == <<67, 128, 108, 37, 0, imm8>>           \* 43 80 6C 25 00
MovbZeroMem == <<67, 198, 68, 37, 0, 0>>                     \* 43 C6 44 25 00 00
TestbMem == <<67, 246, 68, 37, 0, 255>>                      \* 43 F6 44 25 00 FF
JzRel32(rel32) == <<15, 132>> \o writeLE32(rel32)            \* 0F 84
JnzRel32(rel32) == <<15, 133>> \o writeLE32(rel32)           \* 0F 85
CallRel32(rel32) == <<232>> \o writeLE32(rel32)              \* E8
Ret == <<195>>                                               \* C3
Syscall == <<15, 5>>                                         \* 0F 05
LeaqR13R12ToRSI == <<75, 141, 116, 37, 0>>                   \* 4B 8D 74 25 00
XorRAXRAX == <<72, 49, 192>>                                 \* 48 31 C0
XorRDIRDI == <<72, 49, 255>>                                 \* 48 31 FF
MovqImm32RAX(imm32) == <<72, 199, 192>> \o writeLE32(imm32)  \* 48 C7 C0
MovqImm32RDI(imm32) == <<72, 199, 199>> \o writeLE32(imm32)  \* 48 C7 C7
MovqImm32RDX(imm32) == <<72, 199, 194>> \o writeLE32(imm32)  \* 48 C7 C2

\* collectTargets, with the Jz targets left out.
collectTargetsJnzOnly(s) ==
    {s[k].Arg : k \in {j \in 1..Len(s) : s[j].Kind = OpJnz}}

\* collectTargets: the Arg of every Jz and Jnz.
collectTargets(s) ==
    {s[k].Arg : k \in {j \in 1..Len(s) : s[j].Kind \in {OpJz, OpJnz}}}

emitPrologue == MovabsR13(BSSBase) \o XorR12R12

emitEpilogue == MovqImm32RAX(sysExit) \o XorRDIRDI \o Syscall

\* emitHelpers: _bf_read, then _bf_write.
HelperRead ==
    LeaqR13R12ToRSI \o XorRAXRAX \o XorRDIRDI \o MovqImm32RDX(1)
        \o Syscall \o Ret

HelperWrite ==
    LeaqR13R12ToRSI \o MovqImm32RAX(sysWrite) \o MovqImm32RDI(1)
        \o MovqImm32RDX(1) \o Syscall \o Ret

emitShift(k) ==
    IF k = 0 THEN <<>>
    ELSE IF k > 0 THEN AddqImm32R12(k) ELSE SubqImm32R12(-k)

emitAdd(k) ==
    IF k = 0 THEN <<>>
    ELSE IF k > 0 THEN AddbImm8Mem(ToByte(k)) ELSE SubbImm8Mem(ToByte(-k))

emitZero == MovbZeroMem

emitIn == CallRel32(0)

emitOut == CallRel32(0)

emitJz(target) == TestbMem \o JzRel32(0)

emitJnz(target) == TestbMem \o JnzRel32(0)

\* emitOp: the bytes the op appends to the code.
emitOp(op) ==
    CASE op.Kind = OpShift -> emitShift(op.Arg)
      [] op.Kind = OpAdd -> emitAdd(op.Arg)
      [] op.Kind = OpZero -> emitZero
      [] op.Kind = OpIn -> emitIn
      [] op.Kind = OpOut -> emitOut
      [] op.Kind = OpJz -> emitJz(op.Arg)
      [] op.Kind = OpJnz -> emitJnz(op.Arg)
      [] OTHER -> <<>>

jumpFixup(offset, targetIdx) == [offset |-> offset, targetIdx |-> targetIdx]

\* The fix-ups emitOp records for an op emitted at code offset at.
emitFixups(op, at) ==
    CASE op.Kind = OpIn -> <<jumpFixup(at + 1, -1)>>
      [] op.Kind = OpOut -> <<jumpFixup(at + 1, -2)>>
      [] op.Kind \in {OpJz, OpJnz} ->
            <<jumpFixup(at + Len(TestbMem) + 2, op.Arg)>>
      [] OTHER -> <<>>

\* g.labelAddr[i] = len(g.code)
SetLabel(m, i, addr) ==
    [k \in DOMAIN m \cup {i} |-> IF k = i THEN addr ELSE m[k]]

\* g.labelAddr[idx]: a key the map does not hold reads as 0.
LabelOf(m, idx) == IF idx \in DOMAIN m THEN m[idx] ELSE 0

\* resolveFixups with the end of the instruction taken at the rel32 itself.
InstrEndAtRel32(offset) == offset

\* instrEnd := fixup.offset + 4
InstrEnd(offset) == offset + 4

\* The targetAddr of a fix-up.
TargetAddr(fixup) ==
    CASE fixup.targetIdx = -1 -> helperReadOffset
      [] fixup.targetIdx = -2 -> helperWriteOffset
      [] OTHER -> LabelOf(labelAddr, fixup.targetIdx)

\* binary.LittleEndian.PutUint32(g.code[fixup.offset:], uint32(rel32))
Patch(c, offset, rel32) ==
    [k \in 1..Len(c) |->
        IF k \in (offset + 1)..(offset + 4)
        THEN writeLE32(rel32)[k - offset] ELSE c[k]]

\* NewX86_64Generator(ops)
NewX86_64Generator ==
    /\ phase = "codegen"
    /\ phase' = "Generate"
    /\ code' = <<>>
    /\ fixups' = <<>>
    /\ labelAddr' = <<>>
    /\ targets' = collectTargets(ops)
    /\ UNCHANGED <<ops, frontVars, optVars, vmConfig, helperReadOffset,
                   helperWriteOffset, gi, fi, vmVars>>

\* Generate: emitPrologue, before the loop over the ops.
EmitPrologue ==
    /\ phase = "Generate"
    /\ phase' = "emitOps"
    /\ code' = code \o emitPrologue
    /\ gi' = 0
    /\ UNCHANGED <<ops, frontVars, optVars, vmConfig, targets, labelAddr,
                   fixups, helperReadOffset, helperWriteOffset, fi, vmVars>>

\* Generate: one turn of the loop over the ops.
GenerateOp ==
    /\ phase = "emitOps"
    /\ gi < Len(ops)
    /\ labelAddr' = IF gi \in targets THEN SetLabel(labelAddr, gi, Len(code))
                    ELSE labelAddr
    /\ fixups' = fixups \o emitFixups(At(ops, gi), Len(code))
    /\ code' = code \o emitOp(At(ops, gi))
    /\ gi' = gi + 1
    /\ UNCHANGED <<phase, ops, frontVars, optVars, vmConfig, targets,
                   helperReadOffset, helperWriteOffset, fi, vmVars>>

\* Generate, after the loop: the label at the end of the ops, emitEpilogue
\* and emitHelpers.
GenerateEnd ==
    /\ phase = "emitOps"
    /\ gi = Len(ops)
    /\ phase' = "resolveFixups"
    /\ labelAddr' = IF Len(ops) \in targets
                    THEN SetLabel(labelAddr, Len(ops), Len(code))
                    ELSE labelAddr
    /\ helperReadOffset' = Len(code) + Len(emitEpilogue)
    /\ helperWriteOffset' = Len(code) + Len(emitEpilogue) + Len(HelperRead)
    /\ code' = code \o emitEpilogue \o HelperRead \o HelperWrite
    /\ fi' = 0
    /\ UNCHANGED <<ops, frontVars, optVars, vmConfig, targets, fixups, gi,
                   vmVars>>

\* resolveFixups: one turn of the loop over the fix-ups.
ResolveFixup ==
    /\ phase = "resolveFixups"
    /\ fi < Len(fixups)
    /\ LET fixup == fixups[fi + 1]
           rel32 == TargetAddr(fixup) - InstrEnd(fixup.offset)
       IN  code' = Patch(code, fixup.offset, rel32)
    /\ fi' = fi + 1
    /\ UNCHANGED <<phase, ops, frontVars, optVars, vmConfig, targets,
                   labelAddr, fixups, helperReadOffset, helperWriteOffset,
                   gi, vmVars>>

\* Generate returns g.code.
GenerateReturn ==
    /\ phase = "resolveFixups"
    /\ fi = Len(fixups)
    /\ phase' = "generated"
    /\ UNCHANGED <<ops, frontVars, optVars, vmConfig, genVars, vmVars>>

NextGen ==
    \/ NewX86_64Generator
    \/ EmitPrologue
    \/ GenerateOp
    \/ GenerateEnd
    \/ ResolveFixup
    \/ GenerateReturn

MaxGenLen == 4

\* One op of each kind, an ADD 0 that emits nothing, and jumps whose Arg
\* is 0 until Targeted pairs them.
GenAlphabet ==
    { Op(OpAdd, 1, NilPos), Op(OpAdd, 0, NilPos), Op(OpShift, -1, NilPos),
      Op(OpZero, 0, NilPos), Op(OpIn, 0, NilPos), Op(OpOut, 0, NilPos),
      Op(OpJz, 0, NilPos), Op(OpJnz, 0, NilPos) }

\* The generator is given any stream over the alphabet: with its jumps
\* paired when its brackets balance, or as it is.
InitGen ==
    /\ phase = "codegen"
    /\ \E s \in BoundedSeq(GenAlphabet, MaxGenLen) :
          \/ ops = s
          \/ /\ BracketWalk(s, 0, <<>>, {}).ok
             /\ ops = Targeted(s)
    /\ InitIdle
    /\ VMDefault
    /\ VMIdle
    /\ GenIdle

SpecGen == InitGen /\ [][NextGen]_vars

(***************************************************************************)
(* Claims about the generated code.                                        *)
(***************************************************************************)
\* The code offset at which the op of IR index j starts; for j = Len(ops)
\* the offset at which the epilogue starts.
RECURSIVE OpStart(_)
OpStart(j) ==
    IF j = 0 THEN Len(emitPrologue)
    ELSE OpStart(j - 1) + Len(emitOp(At(ops, j - 1)))

ReadStart == OpStart(Len(ops)) + Len(emitEpilogue)

WriteStart == ReadStart + Len(HelperRead)

\* The signed 32-bit value the code holds, lowest byte first, at offset o.
Rel32At(o) ==
    code[o + 1] + 256 * code[o + 2] + 65536 * code[o + 3]
        + 16777216 * (IF code[o + 4] >= 128 THEN code[o + 4] - 256
                      ELSE code[o + 4])

PatchedOps == {j \in 0..(Len(ops) - 1) :
                  At(ops, j).Kind \in {OpIn, OpOut, OpJz, OpJnz}}

\* The offset of the rel32 of the call or jump that op j emits, and the
\* offset the instruction has to reach.
Rel32Offset(j) ==
    IF At(ops, j).Kind \in {OpIn, OpOut} THEN OpStart(j) + 1
    ELSE OpStart(j) + 8

TargetOffset(j) ==
    CASE At(ops, j).Kind = OpIn -> ReadStart
      [] At(ops, j).Kind = OpOut -> WriteStart
      [] OTHER -> OpStart(At(ops, j).Arg)

\* C24: when Generate has returned, every call of an In or Out and every
\* jump of a Jz or Jnz has one recorded fix-up, at the offset of its rel32,
\* and the code holds there target_offset - (rel32_offset + 4), with
\* target_offset the start of _bf_read or _bf_write for a call and the
\* start of the op with the target IR index (the start of the epilogue for
\* the index len(ops)) for a jump; every fix-up has been patched.
C24_FixupsPatched ==
    phase = "generated" =>
        /\ fi = Len(fixups)
        /\ Len(fixups) = Cardinality(PatchedOps)
        /\ \A j \in PatchedOps :
              /\ \E i \in 1..Len(fixups) : fixups[i].offset = Rel32Offset(j)
              /\ Rel32At(Rel32Offset(j)) = TargetOffset(j) - (Rel32Offset(j) + 4)

\* Generate returned for [JZ 3, IN, JNZ 0]: the ops start at 13, 25 and 30,
\* the epilogue at 42 and _bf_read at 54; the jz holds 42 - 25 = 17, the
\* call 54 - 30 = 24 and the jnz 13 - 42 = -29.
C24_Witness ==
    /\ phase = "generated"
    /\ ops = <<Op(OpJz, 3, NilPos), Op(OpIn, 0, NilPos), Op(OpJnz, 0, NilPos)>>
    /\ Len(code) = 104
    /\ SubSeq(code, 22, 25) = <<17, 0, 0, 0>>
    /\ SubSeq(code, 27, 30) = <<24, 0, 0, 0>>
    /\ SubSeq(code, 39, 42) = <<227, 255, 255, 255>>

JumpArgs(s) ==
    {At(s, j).Arg : j \in {k \in 0..(Len(s) - 1) :
                              At(s, k).Kind \in {OpJz, OpJnz}}}

\* C30: for a stream that satisfies the jump-pair invariant, from the
\* moment resolveFixups starts labelAddr holds an entry for the target
\* index of every Jz and Jnz, the index len(ops) included, and for no other
\* index; the entry is the code offset at which that index starts, and the
\* target of every jump fix-up is a key of labelAddr.
C30_LabelsRecorded ==
    (phase \in {"resolveFixups", "generated"} /\ JumpPairInv(ops)) =>
        /\ DOMAIN labelAddr = JumpArgs(ops)
        /\ \A k \in DOMAIN labelAddr : labelAddr[k] = OpStart(k)
        /\ \A i \in 1..Len(fixups) :
              fixups[i].targetIdx >= 0 => fixups[i].targetIdx \in DOMAIN labelAddr

\* resolveFixups is about to start for the empty loop [JZ 2, JNZ 0]: the
\* labels are 13 for index 0 and 37, the start of the epilogue, for
\* index 2 = len(ops).
C30_Witness ==
    /\ phase = "resolveFixups"
    /\ fi = 0
    /\ ops = <<Op(OpJz, 2, NilPos), Op(OpJnz, 0, NilPos)>>
    /\ DOMAIN labelAddr = {0, 2}
    /\ labelAddr[0] = 13
    /\ labelAddr[2] = 37
    /\ Len(fixups) = 2

====
